---- MODULE Spec2Model ----
(***************************************************************************)
(* Model of src/results_queue.rs: an unbounded multi-producer /            *)
(* single-consumer channel of DirEntryContents, the plain iterator that    *)
(* drains it in arrival order, and the sorted iterator with its receive    *)
(* buffer and its next-position matcher.                                   *)
(***************************************************************************)
EXTENDS Integers, Sequences, FiniteSets

VARIABLES
  channel,         \* mpsc queue: entries sent and not yet received
  senders,         \* number of ResultsQueue handles (Sender clones) alive
  receiver_alive,  \* whether the iterator (the Receiver) has not been dropped
  receive_buffer,  \* SortedResultsQueueIterator.receive_buffer (BinaryHeap)
  next_matcher,    \* SortedResultsQueueIterator.next_matcher
  pc,              \* consumer: "idle" between calls, "in_next" inside next()
  results,         \* history: the values next() has returned, in order
  pushed,          \* history: the entries push() has enqueued, in order
  sends,           \* history: number of push() calls made so far
  push_result      \* history: what the last push() call returned

vars == <<channel, senders, receiver_alive, receive_buffer, next_matcher,
          pc, results, pushed, sends, push_result>>

----------------------------------------------------------------------------
(* Bounds of the model. *)

MaxPush == 3       \* push() calls in one behaviour
MaxSenders == 2    \* ResultsQueue handles that exist at one time

\* next() calls that return: one per entry, then two more.
MaxCalls == MaxPush + 2

\* The index_path and remaining_folders_with_contents the producers choose
\* from: the root, a second top-level position, the root's first two
\* children, and every count a parent of such children announces.
IndexPaths == {<<0>>, <<1>>, <<0, 0>>, <<0, 1>>}

BranchCounts == {0, 1, 2}

----------------------------------------------------------------------------
(* DirEntryContents: index_path, remaining_folders_with_contents and the   *)
(* payload; the payload is the enqueue number, which tells entries apart.  *)

DirEntryContents(path, count, payload) ==
  [index_path |-> path, remaining_folders_with_contents |-> count,
   contents |-> payload]

NoEntry == DirEntryContents(<<>>, 0, 0)

\* Option<DirEntryContents>
Some(e) == [tag |-> "Some", val |-> e]
None == [tag |-> "None", val |-> NoEntry]

Last(s) == s[Len(s)]
Front(s) == SubSeq(s, 1, Len(s) - 1)

\* Vec<usize> comparison: element-wise, a strict prefix is smaller.
PathLess(a, b) ==
  \E i \in 1..(Len(b)) :
    /\ i <= Len(a) + 1
    /\ \A j \in 1..(i - 1) : a[j] = b[j]
    /\ (i = Len(a) + 1 \/ a[i] < b[i])

\* The entries BinaryHeap::peek / pop may give: those no other entry of the
\* heap precedes. Entries at the same index_path tie.
HeapTop(heap) ==
  {e \in heap : \A f \in heap : ~PathLess(f.index_path, e.index_path)}

----------------------------------------------------------------------------
(* The channel: mpsc::channel(), Sender::send, Receiver::try_recv / recv.  *)

RecvOk(e) == [tag |-> "Ok", val |-> e]
RecvEmpty == [tag |-> "Empty", val |-> NoEntry]
RecvDisconnected == [tag |-> "Disconnected", val |-> NoEntry]

\* A mutation of try_recv: reports Disconnected as soon as no sender is left,
\* without first handing out what is still queued.
try_recv_hasty(queue, alive) ==
  IF alive = 0 THEN RecvDisconnected
  ELSE IF queue # <<>> THEN RecvOk(Head(queue))
  ELSE RecvEmpty

\* Receiver::try_recv: the head of the queue if there is one; otherwise
\* Disconnected when no sender is left, Empty when one is.
try_recv(queue, alive) ==
  IF queue # <<>> THEN RecvOk(Head(queue))
  ELSE IF alive = 0 THEN RecvDisconnected
  ELSE RecvEmpty

\* A mutation of recv: hands out the newest queued entry, not the oldest.
recv_newest(queue, alive) ==
  IF queue # <<>>
  THEN [tag |-> "Ok", val |-> Last(queue), rest |-> Front(queue)]
  ELSE IF alive = 0
  THEN [tag |-> "Disconnected", val |-> NoEntry, rest |-> queue]
  ELSE [tag |-> "Blocked", val |-> NoEntry, rest |-> queue]

\* A mutation of recv: does not wait, an empty queue ends the sequence.
recv_no_wait(queue, alive) ==
  IF queue # <<>>
  THEN [tag |-> "Ok", val |-> Head(queue), rest |-> Tail(queue)]
  ELSE [tag |-> "Disconnected", val |-> NoEntry, rest |-> queue]

\* Receiver::recv: the head of the queue if there is one; otherwise an
\* error when no sender is left, and it blocks while one is.
recv(queue, alive) ==
  IF queue # <<>>
  THEN [tag |-> "Ok", val |-> Head(queue), rest |-> Tail(queue)]
  ELSE IF alive = 0
  THEN [tag |-> "Disconnected", val |-> NoEntry, rest |-> queue]
  ELSE [tag |-> "Blocked", val |-> NoEntry, rest |-> queue]

----------------------------------------------------------------------------
(* SortedResultsQueueNextMatcher *)

Matcher(path, siblings) ==
  [index_path |-> path, remaining_siblings |-> siblings]

\* impl Default for SortedResultsQueueNextMatcher
default == Matcher(<<0>>, <<1>>)

\* A mutation of is_none: the matcher never reports that it is exhausted.
is_none_never(m) == FALSE

is_none(m) == m.index_path = <<>>

IncLast(s) == [s EXCEPT ![Len(s)] = @ + 1]
DecLast(s) == [s EXCEPT ![Len(s)] = @ - 1]

\* A mutation of the unwinding loop: the last open level is never popped.
RECURSIVE Unwind_keeps_last(_)
Unwind_keeps_last(m) ==
  IF Len(m.remaining_siblings) > 1 /\ Last(m.remaining_siblings) = 0
  THEN Unwind_keeps_last(Matcher(IncLast(Front(m.index_path)),
                                 Front(m.remaining_siblings)))
  ELSE m

\* A mutation of the unwinding loop: a pop does not step the level below.
RECURSIVE Unwind_no_increment(_)
Unwind_no_increment(m) ==
  IF m.remaining_siblings # <<>> /\ Last(m.remaining_siblings) = 0
  THEN Unwind_no_increment(Matcher(Front(m.index_path),
                                   Front(m.remaining_siblings)))
  ELSE m

\* The unwinding loop of increment_past: pop every finished level and step
\* the level below it to its next sibling.
RECURSIVE Unwind(_)
Unwind(m) ==
  IF m.remaining_siblings # <<>> /\ Last(m.remaining_siblings) = 0
  THEN LET path == Front(m.index_path)
           siblings == Front(m.remaining_siblings)
       IN Unwind(Matcher(IF path # <<>> THEN IncLast(path) ELSE path, siblings))
  ELSE m

\* A mutation of increment_past: a leaf steps to its next sibling and no
\* finished level is unwound.
increment_past_no_unwind(m, entry) ==
  LET siblings == DecLast(m.remaining_siblings)
  IN IF entry.remaining_folders_with_contents > 0
     THEN Matcher(Append(m.index_path, 0),
                  Append(siblings, entry.remaining_folders_with_contents))
     ELSE Matcher(IncLast(m.index_path), siblings)

increment_past(m, entry) ==
  LET siblings == DecLast(m.remaining_siblings)
  IN IF entry.remaining_folders_with_contents > 0
     THEN Matcher(Append(m.index_path, 0),
                  Append(siblings, entry.remaining_folders_with_contents))
     ELSE Unwind(Matcher(IncLast(m.index_path), siblings))

----------------------------------------------------------------------------
(* The producer side: ResultsQueue. *)

\* A mutation of send: enqueues and reports success although the receiver
\* is gone.
send_blind(queue, connected, e) ==
  [queue |-> Append(queue, e), result |-> "Ok"]

\* Sender::send: appends to the queue, or fails when the receiver is gone.
send(queue, connected, e) ==
  IF connected
  THEN [queue |-> Append(queue, e), result |-> "Ok"]
  ELSE [queue |-> queue, result |-> "SendError"]

\* ResultsQueue::push by any live handle, with an entry of the caller's
\* choosing. It has no wait: the only guards are that the handle exists
\* and the bound on the number of calls.
push(path, count) ==
  /\ senders > 0
  /\ sends < MaxPush
  /\ LET e == DirEntryContents(path, count, Len(pushed) + 1)
         r == send(channel, receiver_alive, e)
     IN /\ channel' = r.queue
        /\ push_result' = r.result
        /\ pushed' = IF r.result = "Ok" THEN Append(pushed, e) ELSE pushed
  /\ sends' = sends + 1
  /\ UNCHANGED <<senders, receiver_alive, receive_buffer, next_matcher,
                 pc, results>>

\* #[derive(Clone)] on ResultsQueue: one more handle.
clone ==
  /\ senders > 0
  /\ senders < MaxSenders
  /\ senders' = senders + 1
  /\ UNCHANGED <<channel, receiver_alive, receive_buffer, next_matcher,
                 pc, results, pushed, sends, push_result>>

\* A ResultsQueue handle goes out of scope.
drop_sender ==
  /\ senders > 0
  /\ senders' = senders - 1
  /\ UNCHANGED <<channel, receiver_alive, receive_buffer, next_matcher,
                 pc, results, pushed, sends, push_result>>

----------------------------------------------------------------------------
(* The consumer side. *)

\* The consumer calls next() on its iterator.
call_next ==
  /\ receiver_alive
  /\ pc = "idle"
  /\ Len(results) < MaxCalls
  /\ pc' = "in_next"
  /\ UNCHANGED <<channel, senders, receiver_alive, receive_buffer,
                 next_matcher, results, pushed, sends, push_result>>

\* The consumer drops its iterator between two calls: the receiver goes,
\* and with it what was queued or buffered.
drop_iterator ==
  /\ receiver_alive
  /\ pc = "idle"
  /\ receiver_alive' = FALSE
  /\ channel' = <<>>
  /\ receive_buffer' = {}
  /\ UNCHANGED <<senders, next_matcher, pc, results, pushed, sends,
                 push_result>>

\* The loop condition of SortedResultsQueueIterator::next, negated: the top
\* of the heap is at the position the matcher expects.
peek_matches(buffer, matcher) ==
  \E e \in HeapTop(buffer) : e.index_path = matcher.index_path

\* A mutation of the Ok arm: the heap is popped before the received entry
\* is pushed on it.
on_recv_ok_pop_first(buffer, matcher, dentry) ==
  IF buffer = {}
  THEN {[buffer |-> {dentry}, matcher |-> matcher, ret |-> None,
         returns |-> TRUE]}
  ELSE {[buffer |-> (buffer \ {item}) \cup {dentry}, matcher |-> matcher,
         ret |-> Some(item), returns |-> TRUE] : item \in HeapTop(buffer)}

\* A mutation of the Ok arm: the top of the heap is returned but left on
\* the heap (peek for pop).
on_recv_ok_peek(buffer, matcher, dentry) ==
  LET heap == buffer \cup {dentry}
  IN {[buffer |-> heap, matcher |-> matcher, ret |-> Some(item),
       returns |-> TRUE] : item \in HeapTop(heap)}

\* The Ok arm of the try_recv match: push the entry on the heap and return
\* what the heap pops.
on_recv_ok(buffer, matcher, dentry) ==
  LET heap == buffer \cup {dentry}
  IN {[buffer |-> heap \ {item}, matcher |-> matcher, ret |-> Some(item),
       returns |-> TRUE] : item \in HeapTop(heap)}

\* A mutation of the Err arm: Disconnected is waited out like Empty.
keeps_waiting_always(err) == TRUE

\* A mutation of the Err arm: Empty breaks out of the loop like
\* Disconnected.
keeps_waiting_never(err) == FALSE

\* The Err arm of the try_recv match: Empty yields and loops, Disconnected
\* breaks out of the loop.
keeps_waiting(err) == err.tag = "Empty"

\* A mutation of the code after the loop: the popped entry is returned
\* only when it is the expected one, and dropped otherwise.
after_loop_strict(buffer, matcher) ==
  IF buffer = {}
  THEN {[buffer |-> buffer, matcher |-> matcher, ret |-> None,
         returns |-> TRUE]}
  ELSE {[buffer |-> buffer \ {item},
         matcher |-> increment_past(matcher, item),
         ret |-> IF item.index_path = matcher.index_path
                 THEN Some(item) ELSE None,
         returns |-> TRUE] : item \in HeapTop(buffer)}

\* The code after the loop: pop the heap; advance the matcher past the
\* popped entry and return it, or return None when the heap is empty.
after_loop(buffer, matcher) ==
  IF buffer = {}
  THEN {[buffer |-> buffer, matcher |-> matcher, ret |-> None,
         returns |-> TRUE]}
  ELSE {[buffer |-> buffer \ {item},
         matcher |-> increment_past(matcher, item),
         ret |-> Some(item), returns |-> TRUE] : item \in HeapTop(buffer)}

\* What one pass of next() does to the iterator: the loop condition, the
\* is_none check, try_recv and its arms, and the code after the loop.
\* `took` tells whether the pass removed the head of the channel.
next_pass(queue, alive, buffer, matcher) ==
  LET r == try_recv(queue, alive)
      with(outs, t) ==
        {[buffer |-> o.buffer, matcher |-> o.matcher, ret |-> o.ret,
          returns |-> o.returns, took |-> t] : o \in outs}
      same == [buffer |-> buffer, matcher |-> matcher, ret |-> None,
               returns |-> FALSE]
  IN IF peek_matches(buffer, matcher)
     THEN with(after_loop(buffer, matcher), FALSE)
     ELSE IF is_none(matcher)
     THEN with({[same EXCEPT !.returns = TRUE]}, FALSE)
     ELSE IF r.tag = "Ok"
     THEN with(on_recv_ok(buffer, matcher, r.val), TRUE)
     ELSE IF keeps_waiting(r)
     THEN with({same}, FALSE)
     ELSE with(after_loop(buffer, matcher), FALSE)

\* SortedResultsQueueIterator::next, one pass of its loop at a time.
sorted_next ==
  /\ pc = "in_next"
  /\ \E o \in next_pass(channel, senders, receive_buffer, next_matcher) :
       /\ channel' = IF o.took THEN Tail(channel) ELSE channel
       /\ receive_buffer' = o.buffer
       /\ next_matcher' = o.matcher
       /\ results' = IF o.returns THEN Append(results, o.ret) ELSE results
       /\ pc' = IF o.returns THEN "idle" ELSE "in_next"
  /\ UNCHANGED <<senders, receiver_alive, pushed, sends, push_result>>

----------------------------------------------------------------------------
(* The sorted queue as a program. *)

\* new_sorted_results_queue()
Init ==
  /\ channel = <<>>
  /\ senders = 1
  /\ receiver_alive = TRUE
  /\ receive_buffer = {}
  /\ next_matcher = default
  /\ pc = "idle"
  /\ results = <<>>
  /\ pushed = <<>>
  /\ sends = 0
  /\ push_result = "none"

Next ==
  \/ \E path \in IndexPaths, count \in BranchCounts : push(path, count)
  \/ clone
  \/ drop_sender
  \/ call_next
  \/ sorted_next
  \/ drop_iterator

Spec == Init /\ [][Next]_vars

\* The consumer thread keeps running while it is inside next().
FairSpec == Spec /\ WF_vars(sorted_next)

----------------------------------------------------------------------------
(* The plain queue as a program. *)

\* ResultsQueueIterator::next: a blocking recv; Ok is Some, Err is None.
plain_next ==
  /\ pc = "in_next"
  /\ LET r == recv(channel, senders)
     IN /\ r.tag # "Blocked"
        /\ channel' = r.rest
        /\ results' = Append(results, IF r.tag = "Ok" THEN Some(r.val)
                                      ELSE None)
  /\ pc' = "idle"
  /\ UNCHANGED <<senders, receiver_alive, receive_buffer, next_matcher,
                 pushed, sends, push_result>>

\* new_results_queue(); the plain iterator has no buffer and no matcher,
\* so these two stay as they are.
InitPlain ==
  /\ channel = <<>>
  /\ senders = 1
  /\ receiver_alive = TRUE
  /\ receive_buffer = {}
  /\ next_matcher = default
  /\ pc = "idle"
  /\ results = <<>>
  /\ pushed = <<>>
  /\ sends = 0
  /\ push_result = "none"

NextPlain ==
  \/ \E path \in IndexPaths, count \in BranchCounts : push(path, count)
  \/ clone
  \/ drop_sender
  \/ call_next
  \/ plain_next
  \/ drop_iterator

SpecPlain == InitPlain /\ [][NextPlain]_vars

\* A thread blocked in recv() is woken when an entry arrives or the last
\* sender goes.
FairSpecPlain == SpecPlain /\ WF_vars(plain_next)

----------------------------------------------------------------------------
(* next() on its own: the iterator in any state its fields can take.       *)

MaxHeld == 2       \* entries queued or buffered when the calls start
MaxAdvance == 2    \* increment_past calls behind the matcher at the start

\* Sequences of at most n entries, numbered in order.
RECURSIVE Histories(_)
Histories(n) ==
  IF n = 0 THEN {<<>>}
  ELSE LET shorter == Histories(n - 1)
       IN shorter \cup
          {Append(h, DirEntryContents(path, count, Len(h) + 1)) :
             h \in {g \in shorter : Len(g) = n - 1},
             path \in IndexPaths, count \in BranchCounts}

\* The matcher states increment_past reaches from the default in at most n
\* calls.
RECURSIVE Matchers(_)
Matchers(n) ==
  IF n = 0 THEN {default}
  ELSE LET before == Matchers(n - 1)
       IN before \cup
          {increment_past(m, DirEntryContents(<<0>>, count, 0)) :
             m \in {k \in before : k.index_path # <<>>},
             count \in BranchCounts}

\* The first entries of a history are in the heap, the rest in the channel.
InitNext ==
  /\ pushed \in Histories(MaxHeld)
  /\ \E k \in 0..Len(pushed) :
       /\ receive_buffer = {pushed[i] : i \in 1..k}
       /\ channel = SubSeq(pushed, k + 1, Len(pushed))
  /\ next_matcher \in Matchers(MaxAdvance)
  /\ senders \in {0, 1}
  /\ receiver_alive = TRUE
  /\ pc = "idle"
  /\ results = <<>>
  /\ sends = Len(pushed)
  /\ push_result = "none"

NextNext ==
  \/ call_next
  \/ sorted_next
  \/ drop_sender

SpecNext == InitNext /\ [][NextNext]_vars

----------------------------------------------------------------------------
(* The matcher on its own: increment_past applied to the entries of a tree *)
(* in pre-order, starting from the default matcher.                        *)

MaxNodes == 6      \* nodes of a tree

\* The sequences of trees with m nodes in all; a tree is the sequence of
\* its children's trees, a leaf is <<>>.
RECURSIVE Forests(_)
Forests(m) ==
  IF m = 0 THEN {<<>>}
  ELSE UNION {{<<t>> \o f : t \in Forests(k - 1), f \in Forests(m - k)} :
                k \in 1..m}

\* The entries of the tree from its i-th child on, then of the tree itself:
\* the node at path comes first, with its number of children as
\* remaining_folders_with_contents, then child 0's tree, child 1's, ...
RECURSIVE PreOrderFrom(_, _, _)
PreOrderFrom(tree, path, i) ==
  IF i = 0
  THEN <<DirEntryContents(path, Len(tree), 0)>> \o PreOrderFrom(tree, path, 1)
  ELSE IF i > Len(tree) THEN <<>>
  ELSE PreOrderFrom(tree[i], Append(path, i - 1), 0)
         \o PreOrderFrom(tree, path, i + 1)

PreOrder(tree) == PreOrderFrom(tree, <<0>>, 0)

\* pushed holds the tree's entries in pre-order, results the ones the
\* matcher was advanced past.
InitMatcher ==
  /\ \E n \in 1..MaxNodes : \E tree \in Forests(n - 1) :
       pushed = PreOrder(tree)
  /\ next_matcher = default
  /\ results = <<>>
  /\ channel = <<>>
  /\ receive_buffer = {}
  /\ senders = 0
  /\ receiver_alive = TRUE
  /\ pc = "idle"
  /\ sends = Len(pushed)
  /\ push_result = "none"

\* One call of increment_past, with the next entry of the pre-order.
advance ==
  /\ Len(results) < Len(pushed)
  /\ next_matcher' = increment_past(next_matcher, pushed[Len(results) + 1])
  /\ results' = Append(results, Some(pushed[Len(results) + 1]))
  /\ UNCHANGED <<channel, senders, receiver_alive, receive_buffer, pc,
                 pushed, sends, push_result>>

NextMatcher == advance

SpecMatcher == InitMatcher /\ [][NextMatcher]_vars

----------------------------------------------------------------------------
(* Vocabulary of the properties. *)

\* The entries next() has returned so far, in order.
Returned ==
  LET some == SelectSeq(results, LAMBDA r : r.tag = "Some")
  IN [i \in 1..Len(some) |-> some[i].val]

Entries(h) == {h[i] : i \in 1..Len(h)}

\* The last call of next() has returned None.
Ended == results # <<>> /\ Last(results) = None

\* This step is a return of next(), with the value Last(results').
Returns == pc = "in_next" /\ pc' = "idle" /\ Len(results') = Len(results) + 1

\* A history is one finite tree, each node sent once: the root is at <<0>>,
\* every other node has its parent, and a node's children are exactly the
\* sibling indices below its count.
WellFormed(h) ==
  /\ \A i, j \in 1..Len(h) : h[i].index_path = h[j].index_path => i = j
  /\ \E e \in Entries(h) : e.index_path = <<0>>
  /\ \A e \in Entries(h) :
       /\ Len(e.index_path) = 1 => e.index_path = <<0>>
       /\ Len(e.index_path) > 1 =>
            \E f \in Entries(h) : f.index_path = Front(e.index_path)
       /\ {Last(f.index_path) : f \in {g \in Entries(h) :
              /\ Len(g.index_path) = Len(e.index_path) + 1
              /\ Front(g.index_path) = e.index_path}}
            = 0..(e.remaining_folders_with_contents - 1)

\* A sequence of entries in strictly ascending position order.
Ascending(h) ==
  \A i, j \in 1..Len(h) : i < j => PathLess(h[i].index_path, h[j].index_path)

\* The pass next() is about to make returns, whichever way a tie in the
\* heap falls: the call is not left waiting.
SortedMustReturn ==
  LET outs == next_pass(channel, senders, receive_buffer, next_matcher)
  IN outs # {} /\ \A o \in outs : o.returns

\* The matcher's stack is empty: no position is expected any more.
Exhausted == next_matcher.index_path = <<>>

\* Every producer handle is gone and the consumer still holds its iterator.
Closed == receiver_alive /\ senders = 0

----------------------------------------------------------------------------
(* C1: for a well-formed tree, fully pushed before the last handle is      *)
(* dropped, the entries the sorted iterator has returned when it reports   *)
(* the end of the sequence are the tree's nodes in pre-order: all of them, *)
(* in strictly ascending position order.                                   *)

C1_SortedOutputIsPreOrder ==
  (Closed /\ WellFormed(pushed) /\ Ended) =>
     /\ Entries(Returned) = Entries(pushed)
     /\ Ascending(Returned)

----------------------------------------------------------------------------
(* C2: for a well-formed tree of N nodes, fully delivered, the calls of    *)
(* next() return Some exactly N times and None from call N + 1 on: no None *)
(* among the first N results, no Some after them, and a call made once the *)
(* producers are gone does not keep waiting: its next pass returns.        *)

C2_ReleasesEveryNodeThenEnds ==
  (Closed /\ WellFormed(pushed)) =>
     /\ \A i \in 1..Len(results) :
          results[i].tag = "Some" <=> i <= Len(pushed)
     /\ pc = "in_next" => SortedMustReturn

C2_Witness ==
  /\ Closed /\ WellFormed(pushed)
  /\ Len(pushed) = 3
  /\ Len(results) = 4
  /\ Ended

----------------------------------------------------------------------------
(* C3: next() returns an entry at another position than the one the        *)
(* matcher expects only in terminal drain, that is when the loop was left  *)
(* because try_recv reported Disconnected; otherwise an entry that does    *)
(* not match stays in the buffer and the entry returned is the expected    *)
(* one.                                                                    *)

C3_MismatchOnlyInTerminalDrain ==
  [][(/\ Returns
      /\ Last(results').tag = "Some"
      /\ Last(results').val.index_path # next_matcher.index_path)
       => (channel = <<>> /\ senders = 0)]_vars

----------------------------------------------------------------------------
(* C4: the plain iterator returns the entries in the order in which they   *)
(* were enqueued: what it has returned is a prefix of the enqueue history, *)
(* and while the iterator lives the rest of the history is exactly what is *)
(* still queued, so nothing is lost, repeated, invented or reordered.      *)

C4_PlainArrivalOrder ==
  /\ Len(Returned) <= Len(pushed)
  /\ \A i \in 1..Len(Returned) : Returned[i] = pushed[i]
  /\ receiver_alive =>
       /\ Len(pushed) = Len(Returned) + Len(channel)
       /\ \A i \in 1..Len(channel) : channel[i] = pushed[Len(Returned) + i]

C4_Witness ==
  /\ Len(Returned) = 3
  /\ PathLess(Returned[2].index_path, Returned[1].index_path)
  /\ PathLess(Returned[3].index_path, Returned[2].index_path)

----------------------------------------------------------------------------
(* C5: the plain iterator's next() returns None only when no producer      *)
(* handle is left and the channel is empty; while a handle exists and the  *)
(* channel is empty the call cannot return; and a call that finds no       *)
(* handle and an empty channel does return, with None.                     *)

C5_PlainEndsIffClosedAndDrained ==
  /\ [][(Returns /\ Last(results') = None)
          => (senders = 0 /\ channel = <<>>)]_vars
  /\ [][(Returns /\ senders = 0 /\ channel = <<>>)
          => Last(results') = None]_vars
  /\ []((pc = "in_next" /\ senders > 0 /\ channel = <<>>)
          => ~ENABLED plain_next)
  /\ ((pc = "in_next" /\ senders = 0 /\ channel = <<>>)
          ~> (pc = "idle" /\ Ended))

C5_Witness ==
  /\ Ended
  /\ pc = "idle"
  /\ Len(Returned) = 2
  /\ Len(results) = 3

----------------------------------------------------------------------------
(* C6: a push made while the iterator lives enqueues its entry at the back *)
(* of the channel and returns Ok, whatever is queued and whatever the      *)
(* consumer is doing; a push made after the iterator was dropped enqueues  *)
(* nothing and returns the error; and push never has to wait: a live       *)
(* handle can always push.                                                 *)

C6_PushOkUnlessReceiverDropped ==
  /\ [][sends' = sends + 1 =>
          IF receiver_alive
          THEN /\ push_result' = "Ok"
               /\ Len(pushed') = Len(pushed) + 1
               /\ channel' = Append(channel, Last(pushed'))
          ELSE /\ push_result' = "SendError"
               /\ pushed' = pushed
               /\ channel' = channel]_vars
  /\ []((senders > 0 /\ sends < MaxPush) =>
          \A path \in IndexPaths, count \in BranchCounts :
             ENABLED push(path, count))

C6_Witness ==
  /\ ~receiver_alive
  /\ push_result = "SendError"
  /\ Len(pushed) = 2
  /\ sends = 3

----------------------------------------------------------------------------
(* C7: a call of the sorted iterator's next() that finds the matcher       *)
(* exhausted (is_none) takes nothing from the channel, leaves the buffer   *)
(* and the matcher as they are, returns None and nothing else, and does    *)
(* return (a returning pass is its only step), whatever is buffered or     *)
(* queued and whether or not a producer handle is left.                    *)

C7_EndsWhenMatcherIsNone ==
  /\ [][(pc = "in_next" /\ Exhausted) =>
          /\ channel' = channel
          /\ receive_buffer' = receive_buffer
          /\ next_matcher' = next_matcher
          /\ results' # results => (Returns /\ Last(results') = None)]_vars
  /\ []((pc = "in_next" /\ Exhausted) =>
          SortedMustReturn)

C7_Witness ==
  /\ Exhausted
  /\ Ended
  /\ receive_buffer # {}
  /\ channel # <<>>
  /\ senders > 0

----------------------------------------------------------------------------
(* C8: while a producer handle is alive and no entry at the position the   *)
(* matcher expects has been pushed, a call of the sorted iterator's next() *)
(* does not return, whatever else has arrived.                             *)

C8_WaitsForExpectedEntry ==
  [][(/\ pc = "in_next"
      /\ senders > 0
      /\ ~Exhausted
      /\ \A e \in Entries(pushed) : e.index_path # next_matcher.index_path)
       => pc' = "in_next"]_vars

----------------------------------------------------------------------------
(* C9: a pass of next() whose try_recv reports Disconnected, the matcher   *)
(* not being exhausted and the top of the buffer not being the expected    *)
(* entry, ends the call: it returns an entry from the top of the buffer    *)
(* and removes it, expected or not, or returns None when the buffer is     *)
(* empty.                                                                  *)

Disconnected ==
  /\ pc = "in_next"
  /\ ~Exhausted
  /\ \A e \in HeapTop(receive_buffer) :
       e.index_path # next_matcher.index_path
  /\ channel = <<>>
  /\ senders = 0

C9_DisconnectedDrainsOrEnds ==
  /\ [][Disconnected =>
          /\ Returns
          /\ IF receive_buffer = {}
             THEN Last(results') = None /\ receive_buffer' = {}
             ELSE /\ Last(results').tag = "Some"
                  /\ Last(results').val \in HeapTop(receive_buffer)
                  /\ receive_buffer' =
                       receive_buffer \ {Last(results').val}]_vars
  /\ [](Disconnected => SortedMustReturn)

\* The entry at <<1>>, which no matcher expects, was returned by the code
\* after the loop (the matcher has moved) with another entry still buffered.
C9_Witness ==
  /\ senders = 0
  /\ Len(results) = 1
  /\ results[1].tag = "Some"
  /\ results[1].val.index_path = <<1>>
  /\ Exhausted
  /\ receive_buffer # {}

----------------------------------------------------------------------------
(* C10: for a stream that is not a well-formed tree and whose producers    *)
(* are all gone, the sorted iterator reports the end of the sequence only  *)
(* when every pushed entry has been returned, once each; a call made then  *)
(* does not keep waiting; and an entry returned after the closure precedes *)
(* or ties with every entry left in the buffer.                            *)

----------------------------------------------------------------------------
(* C11: when nothing was pushed and every producer handle is gone, a call  *)
(* of next() returns None and does not wait: the sorted iterator's pass    *)
(* returns None (it does not spin for the root), the plain iterator's      *)
(* recv reports the disconnection, and no call has returned anything else. *)

C11_EmptyClosedQueueEnds ==
  (Closed /\ pushed = <<>>) =>
     /\ \A i \in 1..Len(results) : results[i] = None
     /\ pc = "in_next" =>
          /\ SortedMustReturn
          /\ \A o \in next_pass(channel, senders, receive_buffer,
                                next_matcher) : o.ret = None
          /\ recv(channel, senders).tag = "Disconnected"

C11_Witness ==
  /\ Closed
  /\ pushed = <<>>
  /\ results = <<None>>

----------------------------------------------------------------------------
(* C12: with the entries <<0>> (count 1), <<0, 0>> (count 0) and <<1>>     *)
(* (count 0) enqueued in the order <<0, 0>>, <<1>>, <<0>> and the          *)
(* producers gone, the calls of next() return <<0>>, <<0, 0>>, <<1>> and   *)
(* then None.                                                              *)

C12_Stream ==
  <<DirEntryContents(<<0, 0>>, 0, 1), DirEntryContents(<<1>>, 0, 2),
    DirEntryContents(<<0>>, 1, 3)>>

C12_ThreeNodeExample ==
  (Closed /\ pushed = C12_Stream) =>
     \A i \in 1..Len(results) :
        results[i] = IF i = 1 THEN Some(C12_Stream[3])
                     ELSE IF i = 2 THEN Some(C12_Stream[1])
                     ELSE IF i = 3 THEN Some(C12_Stream[2])
                     ELSE None

----------------------------------------------------------------------------
(* C13: with the leaves <<0>> and <<1>> enqueued in the order <<1>>, <<0>> *)
(* and the producers gone, the calls of next() return <<0>> first and      *)
(* <<1>> second, whenever the consumer made its calls.                     *)

C13_Stream ==
  <<DirEntryContents(<<1>>, 0, 1), DirEntryContents(<<0>>, 0, 2)>>

C13_TwoLeavesExample ==
  (Closed /\ pushed = C13_Stream) =>
     /\ Len(results) >= 1 => results[1] = Some(C13_Stream[2])
     /\ Len(results) >= 2 => results[2] = Some(C13_Stream[1])

----------------------------------------------------------------------------
(* C14: with the single entry <<0>> (count 0) pushed and the producers     *)
(* gone, the first call of next() returns that entry, every later call     *)
(* returns None, and no call is left waiting.                              *)

C14_Stream == <<DirEntryContents(<<0>>, 0, 1)>>

C14_SingleNodeExample ==
  (Closed /\ pushed = C14_Stream) =>
     /\ \A i \in 1..Len(results) :
          results[i] = IF i = 1 THEN Some(C14_Stream[1]) ELSE None
     /\ pc = "in_next" => SortedMustReturn

C14_Witness ==
  /\ Closed
  /\ pushed = C14_Stream
  /\ results = <<Some(C14_Stream[1]), None>>

----------------------------------------------------------------------------
(* C15: starting from the default matcher and calling increment_past with  *)
(* the entries of a single-root tree in pre-order, the matcher's           *)
(* index_path after the k-th call is the index_path of the (k+1)-th entry, *)
(* and it is empty after the last entry's call and never before.           *)

C15_MatcherPredictsPreOrder ==
  /\ Len(results) < Len(pushed) =>
       next_matcher.index_path = pushed[Len(results) + 1].index_path
  /\ Exhausted <=> Len(results) = Len(pushed)

C15_Witness ==
  /\ Len(pushed) = 5
  /\ Len(results) = Len(pushed)
  /\ Exhausted
  /\ \E i \in 1..Len(pushed) : Len(pushed[i].index_path) = 3
  /\ \E i \in 1..Len(pushed) : pushed[i].remaining_folders_with_contents = 2

----------------------------------------------------------------------------
(* C16: every entry a call of the sorted next() returns has left the heap  *)
(* and the matcher was advanced past it, once, before the call returned;   *)
(* the matcher changes at no other step.                                   *)

C16_ReturnAdvancesMatcher ==
  [][IF Returns /\ results'[Len(results')].tag = "Some"
     THEN /\ results'[Len(results')].val \notin receive_buffer'
          /\ next_matcher.index_path # <<>>
          /\ next_matcher' =
               increment_past(next_matcher, results'[Len(results')].val)
     ELSE next_matcher' = next_matcher]_vars

----------------------------------------------------------------------------
(* C17: in increment_past with a count of 0, after the innermost index is  *)
(* stepped, the unwinding loop pops a level only while its remaining count *)
(* is 0 and more than one level is open; each pop steps the index of the   *)
(* level that becomes innermost, and the levels below the popped ones keep *)
(* their remaining counts.                                                 *)

\* The number of finished levels at the inner end of a stack of counts.
TrailingZeros(s) ==
  CHOOSE j \in 0..Len(s) :
    /\ \A i \in (Len(s) - j + 1)..Len(s) : s[i] = 0
    /\ j = Len(s) \/ s[Len(s) - j] # 0

\* The matcher after its innermost count is decremented, its innermost
\* index stepped and z levels popped, each pop stepping the level below.
Unwound(m, z) ==
  LET open == Len(m.index_path) - z
  IN Matcher(IF open >= 1 THEN IncLast(SubSeq(m.index_path, 1, open))
             ELSE <<>>,
             SubSeq(DecLast(m.remaining_siblings), 1, open))

LeafAdvance ==
  /\ Len(results') = Len(results) + 1
  /\ results'[Len(results')].tag = "Some"
  /\ results'[Len(results')].val.remaining_folders_with_contents = 0
  /\ next_matcher.index_path # <<>>

\* As claimed: the loop stops when one level is left.
C17_UnwindKeepsOneLevel ==
  [][LeafAdvance =>
       LET zeros == TrailingZeros(DecLast(next_matcher.remaining_siblings))
           most == Len(next_matcher.index_path) - 1
       IN next_matcher' =
            Unwound(next_matcher, IF zeros < most THEN zeros ELSE most)]_vars

(* C17, amended: the loop pops every level whose remaining count is 0, the *)
(* last open level included; each pop steps the index of the level that    *)
(* becomes innermost when there is one, the levels below keep their        *)
(* counts, and both stacks are empty when every level was finished.        *)
C17_UnwindPopsEveryFinishedLevel ==
  [][LeafAdvance =>
       next_matcher' =
         Unwound(next_matcher,
                 TrailingZeros(DecLast(next_matcher.remaining_siblings)))]_vars

C17_Witness ==
  /\ results # <<>>
  /\ Last(results).val.remaining_folders_with_contents = 0
  /\ Len(Last(results).val.index_path) = 3
  /\ next_matcher = Matcher(<<>>, <<>>)

----------------------------------------------------------------------------
(* C18: the consumer side of the sorted iterator neither loses nor         *)
(* duplicates an entry: every returned entry was pushed, none is returned  *)
(* twice, and while the iterator lives every pushed entry is in exactly    *)
(* one place: still in the channel, in the heap, or returned.              *)

C18_NoEntryLostOrDuplicated ==
  /\ Entries(Returned) \subseteq Entries(pushed)
  /\ \A i, j \in 1..Len(Returned) : Returned[i] = Returned[j] => i = j
  /\ receiver_alive =>
       /\ Entries(pushed) =
            Entries(channel) \cup receive_buffer \cup Entries(Returned)
       /\ Len(pushed) =
            Len(channel) + Cardinality(receive_buffer) + Len(Returned)

C18_Witness ==
  /\ receiver_alive
  /\ Len(pushed) = 3
  /\ Len(Returned) = 2
  /\ Len(channel) = 1
  /\ pc = "in_next"

----------------------------------------------------------------------------
(* C19: the sorted iterator is fused: after a call of next() has returned  *)
(* None, every later call returns None.                                    *)

C19_Fused ==
  \A i, j \in 1..Len(results) :
     (i < j /\ results[i] = None) => results[j] = None

C19_Witness ==
  /\ Len(results) >= 3
  /\ results[1] # None
  /\ results[Len(results) - 1] = None
  /\ results[Len(results)] = None

----------------------------------------------------------------------------
(* C20: the matcher's two stacks always have the same length, no count is  *)
(* negative, and the innermost count is at least 1 while the stacks are    *)
(* not empty; so increment_past is never applied to an empty matcher and   *)
(* never decrements a count of 0.                                          *)

MatcherWellFormed(m) ==
  /\ Len(m.index_path) = Len(m.remaining_siblings)
  /\ \A i \in 1..Len(m.remaining_siblings) : m.remaining_siblings[i] >= 0
  /\ m.remaining_siblings # <<>> => Last(m.remaining_siblings) >= 1

C20_MatcherStacksWellFormed ==
  /\ [](MatcherWellFormed(next_matcher))
  /\ [][next_matcher' # next_matcher =>
          /\ next_matcher.index_path # <<>>
          /\ Last(next_matcher.remaining_siblings) >= 1
          /\ MatcherWellFormed(next_matcher')]_vars

\* The heap's entry was matched and returned with the channel untouched,
\* and the matcher went one level down.
C20_Witness ==
  /\ Len(pushed) = 2
  /\ channel = <<pushed[2]>>
  /\ receive_buffer = {}
  /\ results = <<Some(pushed[1])>>
  /\ Len(next_matcher.index_path) = 2
  /\ next_matcher.remaining_siblings[1] = 0

====
